---- MODULE Spec2Model ----
(***************************************************************************)
(* v_alloc: virtual-memory arena allocator (bump arena + stable-pointer    *)
(* realloc).  The model follows the POSIX build of the provider.           *)
(*                                                                         *)
(* Scaling.  size_t and pointers are WordBits wide (arithmetic is done     *)
(* modulo Mod = 2^WordBits); the page is PageSize = 4 * V_ALLOC_ALIGNMENT  *)
(* bytes and the default capacity is MaxArenaPages pages, so that every    *)
(* boundary of the code (alignment, page, reservation, word) is crossed    *)
(* by small numbers.  User-space addresses are the pages 1..UserPages.     *)
(***************************************************************************)
EXTENDS Integers, Naturals, Sequences, FiniteSets, TLC

\* ------------------------------------------------------------------ bounds
WordBits == 10
UserPages == 6
MaxArenaPages == 3
MaxHandles == 2
MaxOps == 5

\* --------------------------------------------------------------- constants
V_ALLOC_ALIGNMENT == 16
Mod == 2 ^ WordBits
PageSize == 4 * V_ALLOC_ALIGNMENT
MAX_ARENA_CAPACITY == MaxArenaPages * PageSize
UserTop == (UserPages + 1) * PageSize

Wrap(x) == x % Mod

\* ALIGN_UP(x, a): round x up to a multiple of the power of two a, in size_t
\* arithmetic ((x + a - 1) & ~(a - 1)); a = 0 gives 0.
ALIGN_UP(x, a) ==
  IF a = 0 THEN 0
  ELSE LET s == Wrap(x + a - 1) IN s - (s % a)

\* ALIGN_DOWN_PTR(p, a): round the address p down to a multiple of a.
ALIGN_DOWN_PTR(p, a) ==
  IF a = 0 THEN 0 ELSE p - (p % a)

\* sizeof(AllocInfo): three pointers and two size_t of 8 bytes.
SizeofAllocInfo == 5 * 8

\* offsetof(AllocHdr, data): data is _Alignas(V_ALLOC_ALIGNMENT).
OffsetofData == ALIGN_UP(SizeofAllocInfo, V_ALLOC_ALIGNMENT)

\* AllocInfo alloc_info = {0}
ZeroInfo ==
  [base |-> 0, ptr |-> 0, end |-> 0, reserved_size |-> 0, page_size |-> 0]

\* ------------------------------------------------------------ the provider
\* The kernel's view: the set of reserved (mapped) pages, the set of
\* committed (read/write) pages, and v_alloc.page_size.  Page k covers
\* [k * PageSize, (k + 1) * PageSize).
AllPages == 0 .. (Mod \div PageSize) - 1

PagesOf(addr, size) ==
  {k \in AllPages : k * PageSize < addr + size /\ (k + 1) * PageSize > addr}

InitOs == [reserved |-> {}, committed |-> {}, page_size |-> 0]

\* sysconf(_SC_PAGESIZE)
v_alloc_posix_get_page_size == PageSize

\* The addresses mmap(NULL, size, ...) may return; 0 stands for MAP_FAILED.
\* The kernel places a mapping at the lowest free range that fits.
MmapChoices(w, size) ==
  LET fits == {b \in {k * PageSize : k \in 1 .. UserPages} :
                 /\ size > 0
                 /\ b + size <= UserTop
                 /\ PagesOf(b, size) \cap w.reserved = {}}
  IN {0} \cup {b \in fits : \A c \in fits : b <= c}

v_alloc_posix_reserve(w, size, pick) ==
  LET w1 == IF w.page_size = 0
            THEN [w EXCEPT !.page_size = v_alloc_posix_get_page_size]
            ELSE w
  IN IF pick = 0
     THEN [os |-> w1, ret |-> 0]
     ELSE [os |-> [w1 EXCEPT !.reserved = @ \cup PagesOf(pick, size)],
           ret |-> pick]

\* mprotect / madvise on [addr, addr + len): 0 on success, -1 on failure.
\* The range must start on a page boundary and be mapped; okOS is the
\* kernel's own verdict (memory pressure).
VmRangeResult(w, addr, len, okOS) ==
  IF addr % PageSize # 0 THEN -1
  ELSE IF len = 0 THEN 0
  ELSE IF okOS /\ addr + len <= Mod /\ PagesOf(addr, len) \subseteq w.reserved
       THEN 0 ELSE -1

v_alloc_posix_commit(w, addr, total_size, additional_bytes, okOS) ==
  LET a == Wrap(addr + total_size + Mod - additional_bytes)
      result == VmRangeResult(w, a, additional_bytes, okOS)
  IN [os |-> IF result = 0
             THEN [w EXCEPT !.committed = @ \cup PagesOf(a, additional_bytes)]
             ELSE w,
      done |-> (result = 0),
      ret |-> (result # 0)]

v_alloc_posix_decommit(w, addr, extra_size, okOS) ==
  LET result == VmRangeResult(w, addr, extra_size, okOS)
  IN [os |-> IF result = 0
             THEN [w EXCEPT !.committed = @ \ PagesOf(addr, extra_size)]
             ELSE w,
      ret |-> (result = 0)]

\* munmap(addr, size) == 0
v_alloc_posix_release(w, addr, size) ==
  LET ok == addr % PageSize = 0 /\ size > 0 /\ addr + size <= Mod
  IN [os |-> IF ok
             THEN [w EXCEPT !.reserved = @ \ PagesOf(addr, size),
                            !.committed = @ \ PagesOf(addr, size)]
             ELSE w,
      ret |-> ok]

\* One entry of the log of provider calls made by an operation.
Call(fn, addr, size, ok) == [fn |-> fn, addr |-> addr, size |-> size, ok |-> ok]

\* ------------------------------------------------------------- the arena
\* A pointer comparison x > y whose operands were computed by pointer
\* arithmetic: when either sum leaves the address space the comparison is
\* undefined, and the build either compares the wrapped addresses or (having
\* assumed no overflow) the unwrapped ones; ub selects which.
PtrGreater(x, y, ub) ==
  IF x < Mod /\ y < Mod THEN x > y
  ELSE IF ub THEN x > y ELSE Wrap(x) > Wrap(y)

\* (size_t)(p - q)
PtrDiff(p, q) == Wrap(p + Mod - q)

Outcome(info, w, ret, calls) ==
  [info |-> info, os |-> w, ret |-> ret, calls |-> calls]

v_alloc_reserve(info, w, reserve_size, pick) ==
  LET r == v_alloc_posix_reserve(w, reserve_size, pick)
      c == <<Call("reserve", r.ret, reserve_size, r.ret # 0)>>
  IN IF r.ret = 0
     THEN Outcome([info EXCEPT !.base = 0], r.os, FALSE, c)
     ELSE Outcome([base |-> r.ret, ptr |-> r.ret, end |-> r.ret,
                   reserved_size |-> reserve_size,
                   page_size |-> r.os.page_size], r.os, TRUE, c)

\* Mutant: the default reservation is made whether or not one is held.
LazyReserve_always(info, w, pick) ==
  v_alloc_reserve(info, w, MAX_ARENA_CAPACITY, pick)

\* if(alloc_info->base == 0){ if(!v_alloc_reserve(..., MAX_ARENA_CAPACITY)) ...
LazyReserve(info, w, pick) ==
  IF info.base = 0
  THEN v_alloc_reserve(info, w, MAX_ARENA_CAPACITY, pick)
  ELSE Outcome(info, w, TRUE, <<>>)

\* Mutant: a zero-byte request is not rejected.
committ_accepts_zero(additional_bytes) == FALSE

\* if(additional_bytes == 0) return NULL;
committ_rejects(additional_bytes) == additional_bytes = 0

\* int result = v_alloc.commit(...); if (result == -1)
CommitFailed(ret) == (IF ret THEN 1 ELSE 0) = -1

\* if (ptr + adjusted > base + reserved_size) return NULL;
committ_out_of_reserved(info, adjusted, ub) ==
  PtrGreater(info.ptr + adjusted, info.base + info.reserved_size, ub)

v_alloc_committ(info, w, requested, pick, okOS, ub) ==
  IF committ_rejects(requested) THEN Outcome(info, w, 0, <<>>)
  ELSE
    LET additional_bytes == ALIGN_UP(requested, V_ALLOC_ALIGNMENT)
        bump(i, w1, c) ==
          Outcome([i EXCEPT !.ptr = Wrap(i.ptr + additional_bytes)],
                  w1, i.ptr, c)
    IN IF additional_bytes > PtrDiff(info.end, info.ptr)
       THEN
         LET rv == LazyReserve(info, w, pick)
             i1 == rv.info
             adjusted == ALIGN_UP(additional_bytes, i1.page_size)
             new_size == Wrap(PtrDiff(i1.end, i1.base) + adjusted)
             cm == v_alloc_posix_commit(rv.os, i1.base, new_size, adjusted, okOS)
             c2 == rv.calls \o <<Call("commit", PtrDiff(i1.base + new_size, adjusted),
                                      adjusted, cm.done)>>
         IN IF ~rv.ret THEN Outcome(i1, rv.os, 0, rv.calls)
            ELSE IF committ_out_of_reserved(i1, adjusted, ub)
                 THEN Outcome(i1, rv.os, 0, rv.calls)
            ELSE IF CommitFailed(cm.ret) THEN Outcome(i1, cm.os, 0, c2)
            ELSE bump([i1 EXCEPT !.end = Wrap(i1.base + new_size)], cm.os, c2)
       ELSE bump(info, w, <<>>)

\* Mutant: the cursor is rewound to the committed end instead of base.
v_alloc_reset_to_end(info) == [info EXCEPT !.ptr = info.end]

v_alloc_reset(info) == [info EXCEPT !.ptr = info.base]

\* if (!alloc_info || extra_size == 0) return false;
decommit_invalid(isNull, extra) == isNull \/ extra = 0

\* isNull: the caller passed a null descriptor pointer; info is then the
\* caller's descriptor, which the call cannot reach.
v_alloc_decommit(isNull, info, w, extra, okOS) ==
  IF decommit_invalid(isNull, extra) THEN Outcome(info, w, FALSE, <<>>)
  ELSE
    LET extra_size == ALIGN_UP(extra, info.page_size)
        decommit_start ==
          ALIGN_DOWN_PTR(PtrDiff(info.end, extra_size), info.page_size)
        r == v_alloc_posix_decommit(w, decommit_start, extra_size, okOS)
        c == <<Call("decommit", decommit_start, extra_size, r.ret)>>
    IN IF extra_size > PtrDiff(info.end, info.base)
       THEN Outcome(info, w, FALSE, <<>>)
       ELSE IF r.ret
            THEN Outcome([info EXCEPT !.end = decommit_start], r.os, TRUE, c)
            ELSE Outcome(info, r.os, FALSE, c)

v_alloc_free(info, w) ==
  IF info.base = 0 THEN Outcome(info, w, FALSE, <<>>)
  ELSE LET r == v_alloc_posix_release(w, info.base, info.reserved_size)
       IN Outcome(info, r.os, r.ret,
                  <<Call("release", info.base, info.reserved_size, r.ret)>>)

\* if (adjusted + base > base + reserved_size) return NULL;
resize_out_of_reserved(info, adjusted, ub) ==
  PtrGreater(adjusted + info.base, info.base + info.reserved_size, ub)

v_alloc_resize(info, w, size_in_bytes, pick, okOS, ub) ==
  IF size_in_bytes = 0
  THEN LET f == v_alloc_free(info, w) IN Outcome(info, f.os, 0, f.calls)
  ELSE
    IF size_in_bytes > PtrDiff(info.end, info.base)
    THEN
      LET rv == LazyReserve(info, w, pick)
          i1 == rv.info
          adjusted == ALIGN_UP(size_in_bytes, i1.page_size)
          additional_bytes == PtrDiff(adjusted, PtrDiff(i1.end, i1.base))
          cm == v_alloc_posix_commit(rv.os, i1.base, adjusted, additional_bytes, okOS)
          c2 == rv.calls \o <<Call("commit", PtrDiff(i1.base + adjusted, additional_bytes),
                                   additional_bytes, cm.done)>>
          e == Wrap(i1.base + adjusted)
      IN IF ~rv.ret THEN Outcome(i1, rv.os, 0, rv.calls)
         ELSE IF resize_out_of_reserved(i1, adjusted, ub)
              THEN Outcome(i1, rv.os, 0, rv.calls)
         ELSE IF CommitFailed(cm.ret) THEN Outcome(i1, cm.os, 0, c2)
         ELSE Outcome([i1 EXCEPT !.end = e, !.ptr = e], cm.os, i1.base, c2)
    ELSE Outcome(info, w, info.base, <<>>)

\* ------------------------------------------------- the growable allocation
\* Header memory: mem maps the address of every AllocHdr that has been
\* written, and whose page is still committed, to the AllocInfo stored there.
Scrub(m, w) ==
  [x \in {y \in DOMAIN m : PagesOf(y, OffsetofData) \subseteq w.committed} |-> m[x]]

\* The header bytes at hdr can be read and written.
Accessible(w, hdr) ==
  hdr + OffsetofData <= Mod /\ PagesOf(hdr, OffsetofData) \subseteq w.committed

\* Mutant: the header is sought sizeof(AllocInfo) bytes before the data.
v_alloc_hdr_from_data_sizeof(data) == PtrDiff(data, SizeofAllocInfo)

\* (AllocHdr*)((char*)(data) - offsetof(AllocHdr, data))
v_alloc_hdr_from_data(data) == PtrDiff(data, OffsetofData)

\* alloc_hdr->data
HdrData(hdr) == Wrap(hdr + OffsetofData)

ROutcome(m, w, ret, calls, fault) ==
  [mem |-> m, os |-> w, ret |-> ret, calls |-> calls, fault |-> fault]

\* total_size += offsetof(AllocHdr, data);
realloc_total(total_size) == Wrap(total_size + OffsetofData)

v_alloc_realloc(data, total_size, m, w, pick, okOS, ub) ==
  LET hdr == v_alloc_hdr_from_data(data)
      \* a committed page that holds no header reads as fresh zero memory,
      \* or as whatever a later owner of the page left there (ub)
      known == hdr \in DOMAIN m
      stored == IF known THEN m[hdr] ELSE ZeroInfo
      bad == ~Accessible(w, hdr) \/ (~known /\ ub)
  IN
  IF total_size = 0
  THEN IF data = 0 THEN ROutcome(m, w, 0, <<>>, FALSE)
       ELSE IF bad THEN ROutcome(m, w, 0, <<>>, TRUE)
       ELSE LET f == v_alloc_free(stored, w)
            IN ROutcome(m, f.os, 0, f.calls, FALSE)
  ELSE
    LET ts == realloc_total(total_size) IN
    IF data = 0
    THEN LET r == v_alloc_resize(ZeroInfo, w, ts, pick, okOS, ub)
             h == r.info.base
         IN IF r.ret = 0 THEN ROutcome(m, r.os, 0, r.calls, FALSE)
            ELSE IF ~Accessible(r.os, h) THEN ROutcome(m, r.os, 0, r.calls, TRUE)
            ELSE ROutcome([x \in DOMAIN m \cup {h} |->
                             IF x = h THEN r.info ELSE m[x]],
                          r.os, HdrData(h), r.calls, FALSE)
    ELSE IF bad THEN ROutcome(m, w, 0, <<>>, TRUE)
         ELSE LET r == v_alloc_resize(stored, w, ts, pick, okOS, ub)
                  m1 == [x \in DOMAIN m \cup {hdr} |->
                           IF x = hdr THEN r.info ELSE m[x]]
              IN ROutcome(m1, r.os,
                          IF r.ret = 0 THEN 0 ELSE HdrData(hdr),
                          r.calls, FALSE)

\* ------------------------------------------------------------------ inputs
ReserveSizes == {2 * PageSize, MAX_ARENA_CAPACITY}

CommittSizes ==
  {0, 1, PageSize - V_ALLOC_ALIGNMENT, PageSize + 1, 2 * PageSize,
   Mod - PageSize, Mod - 1}

DecommitSizes == {0, 1, PageSize + 1, Mod - 1}

\* <<descriptor pointer is null, extra_size>>
DecommitArgs == {<<FALSE, n>> : n \in DecommitSizes} \cup {<<TRUE, 1>>}

ResizeSizes ==
  {0, 1, PageSize + 1, MAX_ARENA_CAPACITY, MAX_ARENA_CAPACITY + 1, Mod - 1}

ReallocSizes ==
  {0, 1, V_ALLOC_ALIGNMENT + 1,
   MAX_ARENA_CAPACITY - OffsetofData, MAX_ARENA_CAPACITY - OffsetofData + 1,
   Mod - OffsetofData - 1, Mod - OffsetofData, Mod - OffsetofData + 1}

Handles == 1 .. MaxHandles

\* ------------------------------------------------------------------- state
VARIABLES
  os,      \* the provider: reserved pages, committed pages, v_alloc.page_size
  arena,   \* the caller's AllocInfo (bump arena / v_alloc_resize descriptor)
  mem,     \* the AllocHdr records that live in committed memory
  handle,  \* the caller's data pointers from v_alloc_realloc (0 = NULL)
  fault,   \* the process died on an access to inaccessible memory
  last,    \* the last call: operation, arguments, return value
  calls,   \* the provider calls the last call made, in order
  cur,     \* the range returned by the arena's latest successful allocate
  failed,  \* some provider call has reported failure so far
  ops,     \* the number of calls made so far
  wide     \* the caller passes any size_t (else sizes near the capacity)

vars == <<os, arena, mem, handle, fault, last, calls, cur, failed, ops, wide>>

\* The sizes of the set S this caller passes.
Requests(S) ==
  IF wide THEN S ELSE {n \in S : n <= MAX_ARENA_CAPACITY + 1}

\* Some provider call of the log c reported failure.
AnyFailed(c) == \E i \in 1 .. Len(c) : ~c[i].ok

NoRange == [start |-> 0, size |-> 0, none |-> TRUE]

Last(op, data, size, ret) == [op |-> op, data |-> data, size |-> size, ret |-> ret]

Start ==
  /\ os = InitOs
  /\ arena = ZeroInfo
  /\ mem = << >>
  /\ handle = [h \in Handles |-> 0]
  /\ fault = FALSE
  /\ last = Last("init", 0, 0, 0)
  /\ calls = << >>
  /\ cur = NoRange
  /\ failed = FALSE
  /\ ops = 0

Init == Start /\ wide = TRUE

InitInRange == Start /\ wide = FALSE

\* A failure reported by a provider call of this step is remembered.
Account == failed' = (failed \/ AnyFailed(calls'))

\* Every call needs a live process and counts against the run's budget.
Step ==
  /\ ~fault
  /\ ops < MaxOps
  /\ ops' = ops + 1
  /\ wide' = wide

\* The caller reserves a descriptor that holds no reservation: a zero one,
\* or one whose region has been released.
Reserve ==
  /\ Step
  /\ arena.base = 0 \/ PagesOf(arena.base, arena.reserved_size) \cap os.reserved = {}
  /\ \E size \in ReserveSizes :
     \E r \in {v_alloc_reserve(arena, os, size, pick) :
                pick \in MmapChoices(os, size)} :
          /\ arena' = r.info
          /\ os' = r.os
          /\ mem' = Scrub(mem, r.os)
          /\ last' = Last("reserve", 0, size, IF r.ret THEN 1 ELSE 0)
          /\ calls' = r.calls
          /\ cur' = NoRange
  /\ UNCHANGED <<handle, fault>>
  /\ Account

Committ ==
  /\ Step
  /\ \E n \in Requests(CommittSizes) :
     \E r \in {v_alloc_committ(arena, os, n, pick, okOS, ub) :
                pick \in MmapChoices(os, MAX_ARENA_CAPACITY),
                okOS \in BOOLEAN, ub \in BOOLEAN} :
          /\ arena' = r.info
          /\ os' = r.os
          /\ mem' = Scrub(mem, r.os)
          /\ last' = Last("committ", 0, n, r.ret)
          /\ calls' = r.calls
          /\ cur' = IF r.ret # 0
                    THEN [start |-> r.ret,
                          size |-> ALIGN_UP(n, V_ALLOC_ALIGNMENT),
                          none |-> FALSE]
                    ELSE cur
  /\ UNCHANGED <<handle, fault>>
  /\ Account

Reset ==
  /\ Step
  /\ arena' = v_alloc_reset(arena)
  /\ last' = Last("reset", 0, 0, 0)
  /\ calls' = << >>
  /\ cur' = NoRange
  /\ UNCHANGED <<os, mem, handle, fault>>
  /\ Account

Decommit ==
  /\ Step
  /\ \E a \in {x \in DecommitArgs : x[2] \in Requests(DecommitSizes)} :
     \E r \in {v_alloc_decommit(a[1], arena, os, a[2], okOS) : okOS \in BOOLEAN} :
          /\ arena' = r.info
          /\ os' = r.os
          /\ mem' = Scrub(mem, r.os)
          /\ last' = Last(IF a[1] THEN "decommit_null" ELSE "decommit",
                          0, a[2], IF r.ret THEN 1 ELSE 0)
          /\ calls' = r.calls
  /\ UNCHANGED <<handle, fault, cur>>
  /\ Account

Free ==
  /\ Step
  /\ \E r \in {v_alloc_free(arena, os)} :
        /\ arena' = r.info
        /\ os' = r.os
        /\ mem' = Scrub(mem, r.os)
        /\ last' = Last("free", 0, 0, IF r.ret THEN 1 ELSE 0)
        /\ calls' = r.calls
  /\ cur' = NoRange
  /\ UNCHANGED <<handle, fault>>
  /\ Account

Resize ==
  /\ Step
  /\ \E n \in Requests(ResizeSizes) :
     \E r \in {v_alloc_resize(arena, os, n, pick, okOS, ub) :
                pick \in MmapChoices(os, MAX_ARENA_CAPACITY),
                okOS \in BOOLEAN, ub \in BOOLEAN} :
          /\ arena' = r.info
          /\ os' = r.os
          /\ mem' = Scrub(mem, r.os)
          /\ last' = Last("resize", 0, n, r.ret)
          /\ calls' = r.calls
          /\ cur' = IF n = 0 THEN NoRange ELSE cur
  /\ UNCHANGED <<handle, fault>>
  /\ Account

\* p = v_alloc_realloc(p, n) as a caller of realloc uses it: a NULL result
\* for n > 0 is a failure and the caller keeps its pointer.
Realloc ==
  /\ Step
  /\ \E h \in Handles : \E n \in Requests(ReallocSizes) :
     \E r \in {v_alloc_realloc(handle[h], n, mem, os, pick, okOS, ub) :
                pick \in MmapChoices(os, MAX_ARENA_CAPACITY),
                okOS \in BOOLEAN, ub \in BOOLEAN} :
          /\ os' = r.os
          /\ mem' = Scrub(r.mem, r.os)
          /\ fault' = r.fault
          /\ handle' = IF r.fault THEN handle
                       ELSE IF n = 0 THEN [handle EXCEPT ![h] = 0]
                       ELSE IF r.ret # 0 THEN [handle EXCEPT ![h] = r.ret]
                       ELSE handle
          /\ last' = Last("realloc", handle[h], n, r.ret)
          /\ calls' = r.calls
  /\ UNCHANGED <<arena, cur>>
  /\ Account

NextArena == Reserve \/ Committ \/ Reset \/ Decommit \/ Free \/ Resize

NextRealloc == Realloc

\* One arena used through reserve, allocate, reset and decommit only.
NextBump == Reserve \/ Committ \/ Reset \/ Decommit

SpecArena == Init /\ [][NextArena]_vars

SpecBumpInRange == InitInRange /\ [][NextBump]_vars

SpecArenaInRange == InitInRange /\ [][NextArena]_vars

SpecRealloc == Init /\ [][NextRealloc]_vars

SpecReallocInRange == InitInRange /\ [][NextRealloc]_vars

\* ------------------------------------------------------------------ claims

\* C1 (pointer stability): every v_alloc_realloc(p, n) with p # NULL and
\* n > 0 that returns non-NULL returns exactly p, whether it grew the
\* allocation or left it alone.
C1_PointerStability ==
  (last.op = "realloc" /\ last.data # 0 /\ last.size > 0 /\ last.ret # 0)
    => last.ret = last.data

\* A growing v_alloc_realloc(p, n) that committed more pages returned p.
C1_Witness ==
  /\ last.op = "realloc" /\ last.data # 0 /\ last.size > 0
  /\ last.ret = last.data
  /\ \E i \in 1 .. Len(calls) : calls[i].fn = "commit" /\ calls[i].ok

\* C9 (zero-size rejection): v_alloc_committ(descriptor, 0) returns NULL,
\* leaves every descriptor field unchanged and makes no provider call, on a
\* zero descriptor as on a reserved one.
C9_ZeroSizeRejected ==
  [][(last'.op = "committ" /\ last'.size = 0)
       => (last'.ret = 0 /\ arena' = arena /\ os' = os /\ calls' = << >>)]_vars

\* v_alloc_committ(descriptor, 0) was called on a reserved descriptor that
\* has committed headroom left.
C9_Witness ==
  /\ last.op = "committ" /\ last.size = 0 /\ last.ret = 0
  /\ arena.base # 0 /\ arena.ptr < arena.end

\* v_alloc_reset rewinds the cursor and touches nothing else.
ResetFrame ==
  last'.op = "reset"
    => /\ arena' = [arena EXCEPT !.ptr = arena.base]
       /\ os' = os
       /\ calls' = << >>

\* The allocate of last'.size bytes that directly follows a reset on a
\* reserved arena, and whose aligned size fits the committed region.
FitsAfterReset ==
  /\ last.op = "reset" /\ last'.op = "committ"
  /\ arena.base # 0
  /\ ALIGN_UP(last'.size, V_ALLOC_ALIGNMENT) <= PtrDiff(arena.end, arena.base)

\* C8 as stated (reset reuse): v_alloc_reset sets cursor to base, leaves the
\* other fields alone and calls no provider; the first v_alloc_committ of
\* any size S after it, whose aligned size is at most committedEnd - base,
\* returns base without a provider call.
C8_ResetReuse_Original ==
  [][ResetFrame /\ (FitsAfterReset => (last'.ret = arena.base /\ calls' = << >>))]_vars

\* C8 amended (reset reuse): as above, for sizes S > 0; an allocate of
\* zero bytes after a reset is rejected like any other.
C8_ResetReuse ==
  [][ResetFrame /\ ((FitsAfterReset /\ last'.size > 0)
                      => (last'.ret = arena.base /\ calls' = << >>))]_vars

\* After a reset of an arena with a used, committed region, an allocate of
\* S > 0 bytes returned base without a provider call.
C8_Witness ==
  /\ last.op = "committ" /\ last.size > 0 /\ last.ret = arena.base
  /\ arena.base # 0 /\ arena.base < arena.end
  /\ calls = << >>
  /\ ops >= 3

\* C2 (usable region): provided no provider call has reported failure, a
\* v_alloc_realloc(dataOrNull, n) with n > 0 that returns p # NULL returns
\* p = base + headerSize of its region, with committedEnd - base >=
\* headerSize + n and all of [p, p + n) on committed pages of the reservation.
C2_UsableRegion ==
  (last.op = "realloc" /\ last.size > 0 /\ last.ret # 0 /\ ~failed)
    => LET hdr == last.ret - OffsetofData
       IN /\ hdr \in DOMAIN mem
          /\ mem[hdr].base = hdr
          /\ mem[hdr].end - mem[hdr].base >= OffsetofData + last.size
          /\ PagesOf(last.ret, last.size) \subseteq os.committed
          /\ last.ret + last.size <= mem[hdr].base + mem[hdr].reserved_size

\* C3 (capacity bound): on a reserved descriptor committedEnd never exceeds
\* base + reservedSize, and no call asks the provider to commit bytes beyond
\* the reservation.
C3_CapacityBound ==
  arena.base # 0
    => /\ arena.end <= arena.base + arena.reserved_size
       /\ \A i \in 1 .. Len(calls) :
            calls[i].fn = "commit"
              => calls[i].addr + calls[i].size <= arena.base + arena.reserved_size

\* C4 (cursor bound): on a reserved descriptor base <= cursor <=
\* committedEnd after every call, a successful decommit included.
C4_CursorBound ==
  arena.base # 0 => (arena.base <= arena.ptr /\ arena.ptr <= arena.end)

\* The step is a successful allocate on the arena that the previous
\* successful allocate used, with no reset in between.
NextAllocate ==
  /\ last'.op = "committ" /\ last'.ret # 0
  /\ ~cur.none
  /\ \A i \in 1 .. Len(calls') : calls'[i].fn # "reserve"

\* C5 (bump monotonicity): between resets the successful allocates of one
\* arena return ranges with strictly increasing starts that do not overlap,
\* start at a multiple of the alignment from base, and lie inside
\* [base, committedEnd) when they are returned.
C5_BumpMonotonic ==
  [][/\ (last'.op = "committ" /\ last'.ret # 0)
          => /\ (cur'.start + Mod - arena'.base) % V_ALLOC_ALIGNMENT = 0
             /\ arena'.base <= cur'.start
             /\ cur'.start + cur'.size <= arena'.end
     /\ NextAllocate
          => /\ cur'.start > cur.start
             /\ cur'.start >= cur.start + cur.size]_vars

\* C6 (commit failure is reported): a call of v_alloc_committ,
\* v_alloc_resize or v_alloc_realloc during which the provider's commit
\* failed returns NULL.
C6_CommitFailureReported ==
  (/\ last.op \in {"committ", "resize", "realloc"}
   /\ \E i \in 1 .. Len(calls) : calls[i].fn = "commit" /\ ~calls[i].ok)
    => (last.ret = 0 /\ ~fault)

\* C7 (failure leaves state intact): when v_alloc_committ, v_alloc_resize
\* with size > 0 or v_alloc_realloc(p, n > 0) returns NULL on a descriptor
\* that holds a reservation, the descriptor is what it was before the call
\* and nothing was released or decommitted.
C7_FailureLeavesState ==
  [][/\ (/\ (last'.op = "committ" \/ (last'.op = "resize" /\ last'.size > 0))
          /\ last'.ret = 0
          /\ arena.base # 0)
          => (arena' = arena /\ os' = os)
     /\ (/\ last'.op = "realloc" /\ last'.data # 0 /\ last'.size > 0
          /\ last'.ret = 0 /\ ~fault'
          /\ v_alloc_hdr_from_data(last'.data) \in DOMAIN mem)
          => (/\ v_alloc_hdr_from_data(last'.data) \in DOMAIN mem'
              /\ mem'[v_alloc_hdr_from_data(last'.data)]
                   = mem[v_alloc_hdr_from_data(last'.data)]
              /\ os' = os)]_vars

\* C10 (free semantics): v_alloc_realloc(p, 0) on a live allocation calls
\* the provider's release exactly once, with the allocation's base and its
\* full reservedSize, and returns NULL; the reserved ranges of the live
\* growable allocations never overlap.
C10_FreeSemantics ==
  /\ (last.op = "realloc" /\ last.data # 0 /\ last.size = 0)
       => /\ ~fault
          /\ last.ret = 0
          /\ calls = <<Call("release", last.data - OffsetofData,
                            MAX_ARENA_CAPACITY, TRUE)>>
  /\ \A h1, h2 \in Handles :
       (h1 # h2 /\ handle[h1] # 0 /\ handle[h2] # 0)
         => \/ handle[h1] + MAX_ARENA_CAPACITY <= handle[h2]
            \/ handle[h2] + MAX_ARENA_CAPACITY <= handle[h1]

\* The descriptor's reservation has been released by v_alloc_free or by
\* v_alloc_resize(descriptor, 0): no page of [base, base + reservedSize)
\* is reserved any more.
Released ==
  /\ arena.base # 0
  /\ PagesOf(arena.base, arena.reserved_size) \cap os.reserved = {}

\* C11 (release invalidates the descriptor): once v_alloc_free or
\* v_alloc_resize(descriptor, 0) has released the reservation, the
\* descriptor behaves like a never-reserved one: no later call invokes the
\* provider's release again, a second v_alloc_free returns false, and no
\* later allocate or resize returns an address inside the released range
\* without first making a new reservation.
C11_ReleaseInvalidates ==
  [][Released
       => /\ \A i \in 1 .. Len(calls') : calls'[i].fn # "release"
          /\ last'.op = "free" => last'.ret = 0
          /\ (/\ last'.op \in {"committ", "resize"}
              /\ last'.ret # 0
              /\ \A i \in 1 .. Len(calls') : calls'[i].fn # "reserve")
               => ~(/\ arena.base <= last'.ret
                    /\ last'.ret < arena.base + arena.reserved_size)]_vars

\* The reserved bytes a request can still draw on: the capacity a zero
\* descriptor gets on its first use, else what the reservation has left
\* above `from`.
RemainingReserved(info, from) ==
  IF info.base = 0 THEN MAX_ARENA_CAPACITY
  ELSE info.base + info.reserved_size - from

\* C12 (far-over-limit requests fail): a v_alloc_committ of n > 0 bytes
\* with n above the reserved space left past the cursor, a v_alloc_resize
\* to n bytes with n above the reserved size, and a v_alloc_realloc of n
\* bytes with header size + n above the reserved size all return NULL, for
\* every n up to 2^w - 1, the sizes whose rounding or header addition wraps
\* included.
C12_OverLimitFails ==
  [][/\ (last'.op = "committ" /\ last'.size > RemainingReserved(arena, arena.ptr))
          => last'.ret = 0
     /\ (last'.op = "resize" /\ last'.size > RemainingReserved(arena, arena.base))
          => last'.ret = 0
     /\ (last'.op = "realloc" /\ last'.size > 0
          /\ last'.size + OffsetofData > MAX_ARENA_CAPACITY)
          => (last'.ret = 0 /\ ~fault')]_vars

\* n rounded up to the next multiple of the page size p, as a number.
RoundUp(n, p) == ((n + p - 1) \div p) * p

\* The step is a v_alloc_resize that took the growing path: it asked the
\* provider to commit and returned a non-NULL address.
ResizeGrew ==
  /\ last'.op = "resize" /\ last'.size > 0 /\ last'.ret # 0
  /\ \E i \in 1 .. Len(calls') : calls'[i].fn = "commit"

\* C13 (no shrink on a smaller resize): v_alloc_resize(descriptor, n) with
\* 0 < n <= committedEnd - base returns base, leaves base, cursor,
\* committedEnd and reservedSize unchanged and makes no provider call; a
\* v_alloc_resize that grows sets cursor = committedEnd = base + n rounded
\* up to the page size and returns base as well.
C13_ResizeNoShrink ==
  [][/\ (/\ last'.op = "resize" /\ last'.size > 0
          /\ last'.size <= arena.end - arena.base)
          => /\ last'.ret = arena.base
             /\ arena' = arena
             /\ os' = os
             /\ calls' = << >>
     /\ ResizeGrew
          => /\ arena'.end = arena'.base + RoundUp(last'.size, arena'.page_size)
             /\ arena'.ptr = arena'.end
             /\ last'.ret = arena'.base]_vars

\* The step is a v_alloc_decommit of extraSize > 0 on a reserved descriptor.
DecommitOnReserved ==
  last'.op = "decommit" /\ last'.size > 0 /\ arena.base # 0

\* C14 (decommit result): on a reserved descriptor v_alloc_decommit with
\* extraSize > 0 returns false and leaves the descriptor unchanged when
\* extraSize rounded up to the page size exceeds committedEnd - base or
\* when the provider's decommit fails; otherwise it calls the provider's
\* decommit on exactly [committedEnd - rounded, committedEnd) and lowers
\* committedEnd by the rounded amount, base and reservedSize unchanged.
\* With extraSize = 0 or a null descriptor it returns false without a
\* provider call.
C14_DecommitResult ==
  [][LET R == RoundUp(last'.size, arena.page_size)
         fits == R <= arena.end - arena.base
     IN /\ (DecommitOnReserved /\ ~fits)
             => (last'.ret = 0 /\ arena' = arena)
        /\ (DecommitOnReserved /\ fits)
             => /\ Len(calls') = 1
                /\ calls'[1] = Call("decommit", arena.end - R, R, calls'[1].ok)
                /\ IF calls'[1].ok
                   THEN /\ last'.ret = 1
                        /\ arena' = [arena EXCEPT !.end = arena.end - R]
                   ELSE last'.ret = 0 /\ arena' = arena
        /\ (last'.op = "decommit_null" \/ (last'.op = "decommit" /\ last'.size = 0))
             => /\ last'.ret = 0
                /\ calls' = << >>
                /\ arena' = arena
                /\ os' = os]_vars

\* C15 (page-aligned commitment): on a descriptor reserved with a page
\* size > 0, after any sequence of reserve, allocate, reset, decommit and
\* resize, committedEnd - base is a multiple of the page size and every
\* size handed to the provider's commit and decommit is a positive multiple
\* of the page size.
C15_PageAligned ==
  (arena.base # 0 /\ arena.page_size > 0)
    => /\ (arena.end - arena.base) % arena.page_size = 0
       /\ \A i \in 1 .. Len(calls) :
            calls[i].fn \in {"commit", "decommit"}
              => (calls[i].size > 0 /\ calls[i].size % arena.page_size = 0)

\* The step is a v_alloc_committ or v_alloc_resize of n > 0 bytes.
LazyOp == last'.op \in {"committ", "resize"} /\ last'.size > 0

\* The request of the step, rounded up as the operation rounds it, is at
\* most the default capacity.
FitsCapacity ==
  IF last'.op = "committ"
  THEN RoundUp(RoundUp(last'.size, V_ALLOC_ALIGNMENT), PageSize) <= MAX_ARENA_CAPACITY
  ELSE RoundUp(last'.size, PageSize) <= MAX_ARENA_CAPACITY

\* The step first reserved the default capacity, once, and - when the
\* provider granted it - then committed and returned the new base.
ReservedThenCommitted ==
  /\ Len(calls') >= 1
  /\ calls'[1].fn = "reserve" /\ calls'[1].size = MAX_ARENA_CAPACITY
  /\ \A i \in 2 .. Len(calls') : calls'[i].fn # "reserve"
  /\ IF calls'[1].ok
     THEN /\ Len(calls') = 2 /\ calls'[2].fn = "commit"
          /\ arena'.base = calls'[1].addr
          /\ arena'.reserved_size = MAX_ARENA_CAPACITY
          /\ last'.ret = arena'.base /\ last'.ret # 0
     ELSE Len(calls') = 1 /\ last'.ret = 0

\* On a descriptor that holds a reservation the step reserved nothing and
\* left base and reservedSize alone.
NoSecondReserve ==
  (LazyOp /\ arena.base # 0)
    => /\ \A i \in 1 .. Len(calls') : calls'[i].fn # "reserve"
       /\ arena'.base = arena.base
       /\ arena'.reserved_size = arena.reserved_size

\* C16 as stated (lazy reservation): v_alloc_committ or v_alloc_resize with
\* any n > 0 on a zero-valued descriptor first calls the provider's reserve
\* exactly once with MAX_ARENA_CAPACITY, then commits and returns the new
\* base; on a descriptor that holds a reservation neither calls reserve
\* again, so base and reservedSize stay fixed.
C16_LazyReservation_Original ==
  [][/\ (LazyOp /\ arena = ZeroInfo) => ReservedThenCommitted
     /\ NoSecondReserve]_vars

\* C16 amended (lazy reservation): as above for the requests n > 0 whose
\* rounded size is at most MAX_ARENA_CAPACITY, provided the provider grants
\* the reservation; when it does not, the call returns NULL.
C16_LazyReservation ==
  [][/\ (LazyOp /\ arena = ZeroInfo /\ FitsCapacity) => ReservedThenCommitted
     /\ NoSecondReserve]_vars

\* A first allocate or resize on a zero-valued descriptor reserved the
\* default capacity, committed and returned the new base.
C16_Witness ==
  /\ last.op \in {"committ", "resize"} /\ last.size > 0
  /\ last.ret # 0 /\ last.ret = arena.base
  /\ Len(calls) = 2
  /\ calls[1] = Call("reserve", arena.base, MAX_ARENA_CAPACITY, TRUE)
  /\ calls[2].fn = "commit"

\* C17 (header round trip): for every pointer p that a successful
\* v_alloc_realloc returns, p minus the header offset is the base of p's
\* reserved region, the offset is a multiple of 16, and the descriptor
\* stored in that header has that base and a committedEnd that is the end
\* of the pages the region has committed, after the creating call and after
\* every later successful v_alloc_realloc(p, n).
C17_HeaderRoundTrip ==
  [][(last'.op = "realloc" /\ last'.size > 0 /\ last'.ret # 0)
       => LET hdr == last'.ret - OffsetofData
          IN /\ OffsetofData % 16 = 0
             /\ hdr \in DOMAIN mem'
             /\ mem'[hdr].base = hdr
             /\ last'.data = 0
                  => calls'[1] = Call("reserve", hdr, MAX_ARENA_CAPACITY, TRUE)
             /\ last'.data # 0 => last'.ret = last'.data
             /\ os'.committed \cap PagesOf(hdr, mem'[hdr].reserved_size)
                  = PagesOf(hdr, mem'[hdr].end - hdr)]_vars

\* C18 (allocations are backed): provided every provider call has reported
\* success, after any sequence of reserve, allocate, reset and decommit on
\* one arena, the range [p, p + alignedSize) that a successful
\* v_alloc_committ returns lies, when it is returned, entirely inside pages
\* the provider has committed.
C18_AllocationsBacked ==
  (last.op = "committ" /\ last.ret # 0 /\ ~failed)
    => /\ cur.start = last.ret
       /\ PagesOf(cur.start, cur.size) \subseteq os.committed

\* C19 (no reservation leak on failed creation): when
\* v_alloc_realloc(NULL, n) with n > 0 returns NULL, the provider's
\* reservations are the same after the call as before it.
C19_NoReservationLeak ==
  [][(/\ last'.op = "realloc" /\ last'.data = 0 /\ last'.size > 0
      /\ last'.ret = 0 /\ ~fault')
       => os'.reserved = os.reserved]_vars

====
